---------------------------- MODULE Spec2Model ----------------------------
(***************************************************************************)
(* mvp_relay: relay of NMEA sentences from several network sources to the  *)
(* MVP controller, withholding zero depths (src/mvp_relay.py).             *)
(*                                                                         *)
(* Text is a sequence of one-character strings, so that Python's indexing, *)
(* slicing, find, split and ord can be computed as the code computes them. *)
(***************************************************************************)
EXTENDS Integers, Sequences, FiniteSets, TLC

(***************************************************************************)
(* Characters and Python's string primitives.                              *)
(***************************************************************************)

\* Printable ASCII, code points 32..126 in order (the double quote, the
\* backslash and the backtick are written by name).
AsciiTable ==
  << " ", "!", "QUOTE", "#", "$", "%", "&", "'", "(", ")", "*", "+", ",", "-", ".", "/",
     "0", "1", "2", "3", "4", "5", "6", "7", "8", "9", ":", ";", "<", "=", ">", "?",
     "@", "A", "B", "C", "D", "E", "F", "G", "H", "I", "J", "K", "L", "M", "N", "O",
     "P", "Q", "R", "S", "T", "U", "V", "W", "X", "Y", "Z", "[", "BACKSLASH", "]", "^", "_",
     "BACKTICK", "a", "b", "c", "d", "e", "f", "g", "h", "i", "j", "k", "l", "m", "n", "o",
     "p", "q", "r", "s", "t", "u", "v", "w", "x", "y", "z", "{", "|", "}", "~" >>

\* ord(char): the code point of a character.
Ord(c) ==
  IF c = "\n" THEN 10
  ELSE IF c = "\r" THEN 13
  ELSE IF c = "\t" THEN 9
  ELSE 31 + (CHOOSE i \in 1..Len(AsciiTable) : AsciiTable[i] = c)

\* The characters str.strip() and str.rstrip() remove.
Whitespace == {" ", "\n", "\r", "\t"}

Min(a, b) == IF a < b THEN a ELSE b

Max(a, b) == IF a > b THEN a ELSE b

\* s[i:j] for 0 <= i and 0 <= j (0-based, j exclusive, clamped to the text).
Slice(s, i, j) == SubSeq(s, i + 1, Min(j, Len(s)))

\* s[i:] for 0 <= i.
SliceFrom(s, i) == SubSeq(s, i + 1, Len(s))

\* s[:j]; a negative j counts from the end, as in Python.
SliceTo(s, j) == IF j >= 0 THEN Slice(s, 0, j) ELSE Slice(s, 0, Max(Len(s) + j, 0))

\* s.find(c): the 0-based index of the first c in s, or -1.
Find(s, c) ==
  IF \E i \in 1..Len(s) : s[i] = c
  THEN (CHOOSE i \in 1..Len(s) : s[i] = c /\ \A j \in 1..(i - 1) : s[j] # c) - 1
  ELSE -1

\* s.split(c): the pieces of s between the occurrences of c (never empty).
RECURSIVE Split(_, _)
Split(s, c) ==
  LET p == Find(s, c)
  IN  IF p = -1 THEN << s >>
      ELSE << Slice(s, 0, p) >> \o Split(SliceFrom(s, p + 1), c)

\* s.rstrip()
RECURSIVE RStrip(_)
RStrip(s) ==
  IF Len(s) > 0 /\ s[Len(s)] \in Whitespace THEN RStrip(SliceTo(s, Len(s) - 1)) ELSE s

\* s.lstrip()
RECURSIVE LStrip(_)
LStrip(s) ==
  IF Len(s) > 0 /\ s[1] \in Whitespace THEN LStrip(SliceFrom(s, 1)) ELSE s

\* s.strip()
Strip(s) == LStrip(RStrip(s))

\* a ^ b on non-negative integers.
RECURSIVE Xor(_, _)
Xor(a, b) ==
  IF a = 0 THEN b
  ELSE IF b = 0 THEN a
  ELSE ((a + b) % 2) + 2 * Xor(a \div 2, b \div 2)

HexDigits == << "0", "1", "2", "3", "4", "5", "6", "7", "8", "9", "A", "B", "C", "D", "E", "F" >>

\* hex(n)[2:].upper(): upper-case hexadecimal of natural width, no padding.
RECURSIVE HexUpper(_)
HexUpper(n) ==
  IF n < 16 THEN << HexDigits[n + 1] >>
  ELSE HexUpper(n \div 16) \o << HexDigits[(n % 16) + 1] >>

(***************************************************************************)
(* float(text), for decimal literals: optional sign, digits with at most   *)
(* one point and at least one digit, surrounding whitespace ignored.  The  *)
(* value is the exact decimal num / 10^scale; any other text raises        *)
(* ValueError (texts with exponents, inf, nan or underscores are not among *)
(* the inputs of this model).                                              *)
(***************************************************************************)
DigitChars == { "0", "1", "2", "3", "4", "5", "6", "7", "8", "9" }

DigitVal(c) == Ord(c) - 48

RECURSIVE DecimalNum(_)
DecimalNum(ds) ==
  IF Len(ds) = 0 THEN 0
  ELSE 10 * DecimalNum(SliceTo(ds, Len(ds) - 1)) + DigitVal(ds[Len(ds)])

RECURSIVE Pow10(_)
Pow10(k) == IF k = 0 THEN 1 ELSE 10 * Pow10(k - 1)

Float(text) ==
  LET t      == Strip(text)
      signed == Len(t) > 0 /\ t[1] \in { "+", "-" }
      body   == IF signed THEN SliceFrom(t, 1) ELSE t
      p      == Find(body, ".")
      int    == IF p = -1 THEN body ELSE Slice(body, 0, p)
      frac   == IF p = -1 THEN << >> ELSE SliceFrom(body, p + 1)
      digits == int \o frac
      wellFormed == /\ Len(digits) > 0
                    /\ \A i \in 1..Len(digits) : digits[i] \in DigitChars
      sign   == IF signed /\ t[1] = "-" THEN -1 ELSE 1
  IN  IF wellFormed
      THEN [ok |-> TRUE, num |-> sign * DecimalNum(digits), scale |-> Len(frac)]
      ELSE [ok |-> FALSE, num |-> 0, scale |-> 0]

\* x != 0 for a float value.
FloatNonZero(x) == x.num # 0

\* x + y for float values.
FloatAdd(x, y) ==
  LET k == Max(x.scale, y.scale)
  IN  [ok |-> TRUE,
       num |-> x.num * Pow10(k - x.scale) + y.num * Pow10(k - y.scale),
       scale |-> k]

(***************************************************************************)
(* Configuration constants of the program.                                 *)
(***************************************************************************)

\* USECHECKSUMS = True
USECHECKSUMS == TRUE

\* udpInPorts: one ingestion worker per configured source (two are configured).
Sources == { 1, 2 }

\* "if self.num%100==0": every ResetPeriod-th count closes and reconnects.
ResetPeriod == 100

(***************************************************************************)
(* msg_split: the sentences of a chunk.                                    *)
(***************************************************************************)

\* The while loop of msg_split: one iteration per call.
RECURSIVE MsgSplitLoop(_, _)
MsgSplitLoop(msg, mout) ==
  LET pos   == Find(msg, "$")
      pos2  == Find(SliceFrom(msg, pos + 1), "$")
      mout2 == Append(mout, SliceTo(msg, pos2))
      msg2  == SliceFrom(msg, pos2 + 1)
  IN  IF pos2 > -1 THEN MsgSplitLoop(msg2, mout2) ELSE mout2

\* msg[0] raises IndexError on an empty chunk.
MsgSplitRaises(msg) == Len(msg) = 0

\* A framer that cuts at each "$" and trims nothing (what C13 rules out).
RECURSIVE MsgSplitUntrimmed(_)
MsgSplitUntrimmed(msg) ==
  IF Find(SliceFrom(msg, 1), "$") > -1
  THEN << SliceTo(msg, Find(SliceFrom(msg, 1), "$") + 1) >>
         \o MsgSplitUntrimmed(SliceFrom(msg, Find(SliceFrom(msg, 1), "$") + 1))
  ELSE << msg >>

\* A framer that starts at the first "$", wherever it is (what C28 rules out).
MsgSplitAnyStart(msg) ==
  IF Find(msg, "$") > -1
  THEN MsgSplitLoop(SliceFrom(msg, Find(msg, "$")), << >>)
  ELSE << >>

\* A framer that leaves out the last sentence of the chunk (what C34 rules
\* out).
MsgSplitDroppingLast(msg) ==
  IF msg[1] = "$"
  THEN SubSeq(MsgSplitLoop(msg, << >>), 1, Len(MsgSplitLoop(msg, << >>)) - 1)
  ELSE << >>

\* msg_split(msg), for a non-empty chunk.
MsgSplit(msg) == IF msg[1] = "$" THEN MsgSplitLoop(msg, << >>) ELSE << >>

(***************************************************************************)
(* clean_nmea_str: validation of one sentence.                             *)
(***************************************************************************)

\* The running XOR of the code points of text.
RECURSIVE XorAll(_)
XorAll(text) ==
  IF Len(text) = 0 THEN 0
  ELSE Xor(XorAll(SliceTo(text, Len(text) - 1)), Ord(text[Len(text)]))

\* newstr = hex(checkSum)[2:].upper() of coreStr[1:]
CheckSumOf(coreStr) == HexUpper(XorAll(SliceFrom(coreStr, 1)))

\* A comparison that lets every checksum shorter than two characters pass
\* (what C30, as amended, rules out).
CheckSumAgreesIfLong(newstr, checkSumStr) ==
  Len(checkSumStr) < 2 \/ newstr = checkSumStr

\* "if newstr != checkSumStr: isGoodStr = False"
CheckSumAgrees(newstr, checkSumStr) == newstr = checkSumStr

\* A repair that removes offset 6 alone (what C31 rules out).
SpliceOneByte(nmeaStr) == Slice(nmeaStr, 0, 6) \o SliceFrom(nmeaStr, 7)

\* "nmeaStr = nmeaStr[:6] + nmeaStr[8:]"
SpliceOffset6(nmeaStr) == Slice(nmeaStr, 0, 6) \o SliceFrom(nmeaStr, 8)

\* The index at offset 6 without the test of the length before it (what
\* C35 rules out).
CleanNmeaStrRaisesUnguarded(nmeaStr) == Len(nmeaStr) < 7

\* Whether clean_nmea_str(nmeaStr) raises: past "if len(nmeaStr) < 9: return",
\* nmeaStr[6] raises IndexError on a text of fewer than seven characters, and
\* nmeaStr[0] on an empty text after the repair; strs[1] is read only when
\* strs has two elements, and coreStr only when it has been bound.
CleanNmeaStrRaises(nmeaStr) ==
  /\ ~(Len(nmeaStr) < 9)
  /\ \/ Len(nmeaStr) < 7
     \/ /\ Len(nmeaStr) >= 7
        /\ Len(IF nmeaStr[7] # "," THEN SpliceOffset6(nmeaStr) ELSE nmeaStr) < 1

\* clean_nmea_str(nmeaStr): [str |-> the returned text, good |-> isGoodStr].
CleanNmeaStr(nmeaStr) ==
  IF Len(nmeaStr) < 9 THEN [str |-> nmeaStr, good |-> FALSE]
  ELSE
    LET s1    == IF nmeaStr[7] # ","
                 THEN SpliceOffset6(nmeaStr)
                 ELSE nmeaStr
        good1 == s1[1] = "$"
        strs  == Split(s1, "*")
        good2 == good1 /\ (USECHECKSUMS => Len(strs) >= 2)
        coreStr     == strs[1]
        checkSumStr == Slice(strs[2], 0, 2)
        s2    == IF good2 /\ USECHECKSUMS /\ Len(checkSumStr) >= 2
                 THEN coreStr \o << "*" >> \o checkSumStr
                 ELSE s1
        good3 == good2 /\ (USECHECKSUMS => CheckSumAgrees(CheckSumOf(coreStr), checkSumStr))
    IN  [str |-> s2, good |-> good3]

(***************************************************************************)
(* relayMessage: the depth-aware relay policy.                             *)
(***************************************************************************)
ID_SDDBS == << "$", "S", "D", "D", "B", "S" >>

ID_SDDPT == << "$", "S", "D", "D", "P", "T" >>

ID_PKEL9 == << "$", "P", "K", "E", "L", "9" >>

ID_FKDBS == << "$", "F", "K", "D", "B", "S" >>

ID_HEHDT == << "$", "H", "E", "H", "D", "T" >>

\* What one call of relayMessage did: the datagrams handed to the outbound
\* socket (payload, and ok: whether the transport took it), and whether an
\* exception left relayMessage.
NoSend == [sends |-> << >>, raised |-> FALSE]

Raise == [sends |-> << >>, raised |-> TRUE]

\* A send whose transport failure leaves relayMessage (what C19 rules out).
SendToRaising(payload, isBytes, sendOk) ==
  IF isBytes /\ sendOk
  THEN [sends |-> << [payload |-> payload, ok |-> TRUE] >>, raised |-> FALSE]
  ELSE [sends |-> << >>, raised |-> isBytes]

\* outUdpSocket.sendto(data, mvpAddr) inside try/except: a str argument raises
\* TypeError before anything reaches the socket, a transport failure raises
\* OSError; the caller's bare except swallows both.
SendTo(payload, isBytes, sendOk) ==
  IF isBytes
  THEN [sends |-> << [payload |-> payload, ok |-> sendOk] >>, raised |-> FALSE]
  ELSE NoSend

\* A policy that takes every sentence for a depth (what C20 rules out).
IsDepthDataGramAlways(nmeaID) == TRUE

\* "isDepthDataGram": $FKDBS is not among the identifiers tested.
IsDepthDataGram(nmeaID) == nmeaID \in { ID_SDDBS, ID_SDDPT, ID_PKEL9 }

\* A relay policy that knows no heading sentence (what C5 rules out).
IsHeadingNever(nmeaID) == FALSE

\* The identifier that is never relayed: "if nmeaID == "$HEHDT": pass".
IsHeading(nmeaID) == nmeaID = ID_HEHDT

\* The branches for $PKEL9, $SDDBS and $FKDBS: depth = float(fields[k]);
\* if depth != 0, sendto(msg, mvpAddr) with msg a str.
SingleDepthBranch(msg, fields, k) ==
  IF Len(fields) <= k THEN Raise                      \* IndexError
  ELSE LET depth == Float(fields[k + 1])
       IN  IF ~depth.ok THEN Raise                    \* ValueError
           ELSE IF FloatNonZero(depth) THEN SendTo(msg, FALSE, TRUE)
           ELSE NoSend

\* A test of the depth below the surface alone (what C4 rules out).
SddptSurfaceOnly(depthBelowT, depthBelowS) == FloatNonZero(depthBelowS)

\* "if depthBelowT != 0 and depthBelowS != 0"
SddptRelayable(depthBelowT, depthBelowS) ==
  FloatNonZero(depthBelowT) /\ FloatNonZero(depthBelowS)

\* The $SDDPT branch.
SddptBranch(msg, fields, sendOk) ==
  IF Len(fields) <= 2 THEN Raise                      \* IndexError
  ELSE LET depthBelowT == Float(fields[2])
           offset      == Float(fields[3])
       IN  IF ~depthBelowT.ok \/ ~offset.ok THEN Raise   \* ValueError
           ELSE IF SddptRelayable(depthBelowT, FloatAdd(depthBelowT, offset))
                THEN SendTo(Strip(msg) \o << "\n" >>, TRUE, sendOk)
                ELSE NoSend

\* relayMessage(msg, gui); sendOk: whether the transport accepts a datagram.
RelayMessage(msg, sendOk) ==
  LET fields0 == Split(msg, ",")
      nmeaID  == fields0[1]
      fields  == [fields0 EXCEPT ![Len(fields0)] = SliceTo(@, -3)]
  IN  IF Len(msg) = 0 THEN NoSend
      ELSE IF ~IsDepthDataGram(nmeaID)
           THEN IF IsHeading(nmeaID) THEN NoSend
                ELSE SendTo(Strip(msg) \o << "\n" >>, TRUE, sendOk)
      ELSE IF nmeaID = ID_PKEL9 THEN SingleDepthBranch(msg, fields, 5)
      ELSE IF nmeaID = ID_SDDBS THEN SingleDepthBranch(msg, fields, 3)
      ELSE IF nmeaID = ID_FKDBS THEN SingleDepthBranch(msg, fields, 4)
      ELSE SddptBranch(msg, fields, sendOk)

(***************************************************************************)
(* Bounds of the model and the texts the sources deliver.                  *)
(***************************************************************************)

\* Successful non-empty reads in a run, all sources together.
MaxReads == 2

\* Faults of the environment in a run: failed connects, failed reads, reads
\* of b'', failed writes of the log.
MaxFaults == 1

\* What a sensor appends to a sentence core: "*" and the two-digit checksum.
Hex2(n) == << HexDigits[(n \div 16) + 1], HexDigits[(n % 16) + 1] >>

WithCheckSum(core) == core \o << "*" >> \o Hex2(XorAll(SliceFrom(core, 1)))

\* "$GPGGA,7*00\n$GPGGA,7*hh\n$SDDPT,5,1*hh\n": a position fix with a wrong
\* checksum, then a position fix and a depth that are both relayed.
ChunkNavDepth ==
  << "$", "G", "P", "G", "G", "A", ",", "7", "*", "0", "0", "\n" >>
    \o WithCheckSum(<< "$", "G", "P", "G", "G", "A", ",", "7" >>) \o << "\n" >>
    \o WithCheckSum(ID_SDDPT \o << ",", "5", ",", "1" >>) \o << "\n" >>

\* "GGA,7\n": noise, no leading "$".
ChunkNoise == << "G", "G", "A", ",", "7", "\n" >>

\* "$SDDPT,x,1*hh\n": a depth sentence whose depth is not a number.
ChunkBadDepth == WithCheckSum(ID_SDDPT \o << ",", "x", ",", "1" >>) \o << "\n" >>

\* The texts a read of source s can return: source 1 is an echosounder,
\* source 2 carries navigation, and noise.
ChunkTexts(s) ==
  IF s = 1 THEN { ChunkNavDepth, ChunkBadDepth }
  ELSE { ChunkNavDepth, ChunkNoise }

(***************************************************************************)
(* State.                                                                  *)
(***************************************************************************)
VARIABLES
  running,        \* self.running
  num,            \* self.num, the read counter shared by the workers
  udpQueue,       \* self.udpQueue: chunks [src, seq, text]; src and seq are
                  \* the chunk's source and its rank among that source's reads
  wpc,            \* each worker's position in udpThread
  udpData,        \* each worker's local udpData
  numLoad,        \* each worker's loaded value of self.num inside "self.num+=1"
  nread,          \* non-empty reads made by each worker so far
  nfault,         \* faults met so far by each worker, and by the main thread (0)
  dpc,            \* the main thread's position: periodicCall, then the main loop
  restart,        \* self.restart
  trace,          \* what the dispatch loop did, in order: get, log, send
  rpc,            \* relay policy on one sentence: position
  rin,            \* ... the framed sentence
  rclean,         \* ... what clean_nmea_str returned
  rres,           \* ... what relayMessage did
  fpc,            \* framing of one chunk: position
  fin,            \* ... the chunk, and the pieces it is made of
  fout,           \* ... what msg_split returned
  serialQueue,    \* self.serialQueue: the lines the serial workers have put
  spc,            \* the serial worker's position in serialThread, "none"
                  \* when no serial port is configured
  clock,          \* time.time(), in minutes
  logFid,         \* the global logFid: 0, or the rank of a file in logFiles
  timeLastLogStarted,   \* the global of that name
  logFiles,       \* the log files made so far: name, open or closed, lines
  lpc             \* logMessage: "ready", or "raised" after it has raised

pipeVars == << running, num, udpQueue, wpc, udpData, numLoad, nread, nfault,
               dpc, restart, trace >>

relayVars == << rpc, rin, rclean, rres >>

frameVars == << fpc, fin, fout >>

serialVars == << serialQueue, spc >>

logVars == << clock, logFid, timeLastLogStarted, logFiles, lpc >>

vars == << pipeVars, relayVars, frameVars, serialVars, logVars >>

\* udpData = '' (or b''): nothing read.
NoData == [src |-> 0, seq |-> 0, text |-> << >>]

\* One entry of trace.
Event(kind, c, idx, text, ok) ==
  [kind |-> kind, src |-> c.src, seq |-> c.seq, idx |-> idx, text |-> text, ok |-> ok]

(***************************************************************************)
(* processIncoming on one dequeued chunk.                                  *)
(***************************************************************************)

\* A filter that keeps every framed sentence, valid or not (what C2 rules out).
CleanAllKeepAll(msgs, k) ==
  [i \in 1..(Len(msgs) - k + 1) |->
     [idx |-> i + k - 1, str |-> CleanNmeaStr(msgs[i + k - 1]).str]]

\* "for msg in msgs: m, isGoodStr = clean_nmea_str(msg); if isGoodStr: mout.append(m)"
\* Each kept sentence carries idx, its position among the framed sentences.
RECURSIVE CleanAll(_, _)
CleanAll(msgs, k) ==
  IF k > Len(msgs) THEN << >>
  ELSE LET r == CleanNmeaStr(msgs[k])
       IN  (IF r.good THEN << [idx |-> k, str |-> r.str] >> ELSE << >>)
             \o CleanAll(msgs, k + 1)

\* The send events of one call of relayMessage on sentence idx of chunk c.
SendEvents(c, idx, sends) ==
  [i \in 1..Len(sends) |-> Event("send", c, idx, sends[i].payload, sends[i].ok)]

\* A loop whose first call's datagrams leave after the others' (what C9 rules out).
AfterReversed(events, rest) ==
  [events |-> rest.events \o events, raised |-> rest.raised]

\* What a loop over sentences did after what its first call did.
After(events, rest) == [events |-> events \o rest.events, raised |-> rest.raised]

\* "for msg in mout: relayMessage(msg, self)": in order, up to the first
\* exception, which leaves the loop.
RECURSIVE RelayAll(_, _, _)
RelayAll(c, mout, sendOk) ==
  IF Len(mout) = 0 THEN [events |-> << >>, raised |-> FALSE]
  ELSE IF RelayMessage(mout[1].str, sendOk).raised
       THEN [events |-> << >>, raised |-> TRUE]
       ELSE After(SendEvents(c, mout[1].idx, RelayMessage(mout[1].str, sendOk).sends),
                  RelayAll(c, Tail(mout), sendOk))

\* The line handed to logMessage: the time stamp (left out), "--" and the
\* chunk, right-stripped.
DatedMsg(text) == RStrip(<< "-", "-" >> \o text)

\* A dispatch loop that logs only what it relays (what C10 rules out).
LogMessageNever(c, logOk) == << >>

\* "logMessage(datedMsg)"; logOk: logMessage returned (it raises when the log
\* file cannot be opened or written).
LogMessage(c, logOk) == << Event("log", c, 0, DatedMsg(c.text), logOk) >>

\* The body of "if not getFailed:" for chunk c.
ProcessChunk(c, logOk, sendOk) ==
  LET got    == << Event("get", c, 0, c.text, TRUE) >>
      logged == LogMessage(c, logOk)
  IN  IF ~logOk THEN [events |-> got \o logged, raised |-> TRUE, restart |-> FALSE]
      ELSE IF MsgSplitRaises(c.text)
      THEN [events |-> got \o logged, raised |-> TRUE, restart |-> FALSE]
      ELSE LET mout == CleanAll(MsgSplit(c.text), 1)
               r    == RelayAll(c, mout, sendOk)
           IN  [events |-> got \o logged \o r.events, raised |-> r.raised,
                restart |-> Len(mout) = 0]

(***************************************************************************)
(* ThreadedClient.__init__: the state after construction, each worker      *)
(* thread started and the main thread entering periodicCall.               *)
(***************************************************************************)
\* Either the state right after construction, or the state after source 1
\* has delivered ResetPeriod - 3 chunks that have all been dispatched while
\* source 2 is still connecting (the counter is then two reads short of the
\* periodic reconnect; the history of those chunks is left out of trace).
InitPipe ==
  /\ running = TRUE
  /\ \/ num = 1 /\ wpc = [s \in Sources |-> "connect"]
     \/ num = ResetPeriod - 2 /\ wpc = [s \in Sources |-> IF s = 1 THEN "loop" ELSE "connect"]
  /\ udpQueue = << >>
  /\ udpData = [s \in Sources |-> NoData]
  /\ numLoad = [s \in Sources |-> 0]
  /\ nread = [s \in Sources |-> 0]
  /\ nfault = [t \in Sources \cup { 0 } |-> 0]
  /\ dpc = "tick"
  /\ restart = FALSE
  /\ trace = << >>

RelayIdle ==
  /\ rpc = "idle"
  /\ rin = << >>
  /\ rclean = [str |-> << >>, good |-> FALSE]
  /\ rres = NoSend

\* No chunk is framed apart from the pipeline.
FrameIdle ==
  /\ fpc = "idle"
  /\ fin = [prefix |-> << >>, pieces |-> << >>]
  /\ fout = << >>

\* serialInPorts = []: no serial thread is started and nothing is ever put on
\* the serial queue.
SerialIdle ==
  /\ serialQueue = << >>
  /\ spc = "none"

\* float('-inf'), and a time.
NegInf == [inf |-> TRUE, t |-> 0]

At(t) == [inf |-> FALSE, t |-> t]

\* "logFid = 0; timeLastLogStarted = float('-inf')": no log file yet.
LogIdle ==
  /\ clock = 0
  /\ logFid = 0
  /\ timeLastLogStarted = NegInf
  /\ logFiles = << >>
  /\ lpc = "ready"

Init == InitPipe /\ RelayIdle /\ FrameIdle /\ SerialIdle /\ LogIdle

(***************************************************************************)
(* udpThread, one per source.                                              *)
(***************************************************************************)

\* A queue that hands out the newest chunk first (what C8 rules out).
QueuePutFront(q, c) == << c >> \o q

\* A worker that takes the oldest chunk off the queue as it puts its own
\* (what C24 rules out).
QueuePutTakingHead(q, c) == IF q = << >> THEN << c >> ELSE Append(Tail(q), c)

\* self.udpQueue.put(chunk): queue.Queue is first-in first-out.
QueuePut(q, c) == Append(q, c)

\* Non-empty reads, and faults, so far.
RECURSIVE SumOver(_, _)
SumOver(f, S) ==
  IF S = {} THEN 0
  ELSE LET x == CHOOSE y \in S : TRUE IN f[x] + SumOver(f, S \ {x})

TotalReads == SumOver(nread, Sources)

TotalFaults == SumOver(nfault, DOMAIN nfault)

\* The environment fails thread t once more.
Fault(t) ==
  /\ TotalFaults < MaxFaults
  /\ nfault' = [nfault EXCEPT ![t] = @ + 1]

\* An uncaught exception ends the worker's thread.
WorkerRaises(s) ==
  /\ Fault(s)
  /\ wpc' = [wpc EXCEPT ![s] = "dead"]

\* A read returns a chunk of this source.
ReadsChunk(s, text) ==
  /\ TotalReads < MaxReads
  /\ nread' = [nread EXCEPT ![s] = @ + 1]
  /\ udpData' = [udpData EXCEPT ![s] = [src |-> s, seq |-> nread[s] + 1, text |-> text]]

\* A read returns b'': the peer has closed the connection.
ReadsNothing(s) ==
  /\ Fault(s)
  /\ udpData' = [udpData EXCEPT ![s] = NoData]
  /\ UNCHANGED nread

\* socket(), settimeout, connect before the loop: a failed connect is not caught.
Connect(s) ==
  /\ wpc[s] = "connect"
  /\ \/ wpc' = [wpc EXCEPT ![s] = "loop"] /\ UNCHANGED nfault
     \/ WorkerRaises(s)
  /\ UNCHANGED << running, num, udpQueue, udpData, numLoad, nread,
                  dpc, restart, trace, relayVars, frameVars, serialVars, logVars >>

\* A worker that does not look at the flag: it stays in its loop.
LoopExitNever(s) ==
  /\ wpc[s] = "loop"
  /\ ~running
  /\ UNCHANGED << running, num, udpQueue, wpc, udpData, numLoad, nread, nfault,
                  dpc, restart, trace, relayVars, frameVars, serialVars, logVars >>

\* "while self.running:" is false: the socket is closed and the thread ends.
LoopExit(s) ==
  /\ wpc[s] = "loop"
  /\ ~running
  /\ wpc' = [wpc EXCEPT ![s] = "exited"]
  /\ udpData' = [udpData EXCEPT ![s] = NoData]
  /\ UNCHANGED << running, num, udpQueue, numLoad, nread, nfault,
                  dpc, restart, trace, relayVars, frameVars, serialVars, logVars >>

\* "while self.running:" is true and "udpData = inUdpSocket.recv(...)"
\* returns: self.num is loaded for the +=.
RecvReturns(s) ==
  /\ wpc[s] = "loop"
  /\ running
  /\ \/ \E text \in ChunkTexts(s) : ReadsChunk(s, text) /\ UNCHANGED nfault
     \/ ReadsNothing(s)
  /\ numLoad' = [numLoad EXCEPT ![s] = num]
  /\ wpc' = [wpc EXCEPT ![s] = "incr"]
  /\ UNCHANGED << running, num, udpQueue, dpc, restart, trace, relayVars, frameVars, serialVars, logVars >>

\* "while self.running:" is true and recv raises (timeout or error): the
\* except branch sets udpData = ''.
RecvFails(s) ==
  /\ wpc[s] = "loop"
  /\ running
  /\ Fault(s)
  /\ udpData' = [udpData EXCEPT ![s] = NoData]
  /\ wpc' = [wpc EXCEPT ![s] = "reconnect"]
  /\ UNCHANGED << running, num, udpQueue, numLoad, nread,
                  dpc, restart, trace, relayVars, frameVars, serialVars, logVars >>

\* The store of "self.num+=1".
Incr(s) ==
  /\ wpc[s] = "incr"
  /\ num' = numLoad[s] + 1
  /\ numLoad' = [numLoad EXCEPT ![s] = 0]
  /\ wpc' = [wpc EXCEPT ![s] = "check"]
  /\ UNCHANGED << running, udpQueue, udpData, nread, nfault,
                  dpc, restart, trace, relayVars, frameVars, serialVars, logVars >>

\* "while udpData=='':" close, socket(), connect, recv.  recv returns bytes,
\* which never equal '', so the loop body runs once; connect and recv are
\* outside any try, so a failure of either ends the thread.  Both calls are
\* bounded by UDPTIMEOUT, so one of the three outcomes always comes: a chunk,
\* b'' from a peer that has closed, or an exception.
ReconnectOnce(s, to) ==
  \/ /\ \E text \in ChunkTexts(s) : ReadsChunk(s, text)
     /\ wpc' = [wpc EXCEPT ![s] = to]
     /\ UNCHANGED nfault
  \/ /\ udpData' = [udpData EXCEPT ![s] = NoData]
     /\ wpc' = [wpc EXCEPT ![s] = to]
     /\ UNCHANGED << nread, nfault >>
  \/ /\ WorkerRaises(s)
     /\ UNCHANGED << udpData, nread >>

\* The reconnect of the except branch.
Reconnect(s) ==
  /\ wpc[s] = "reconnect"
  /\ ReconnectOnce(s, "check")
  /\ UNCHANGED << running, num, udpQueue, numLoad,
                  dpc, restart, trace, relayVars, frameVars, serialVars, logVars >>

\* A put of whatever was read, empty or not (what C36 rules out).
PutChunkAlways(s) ==
  /\ udpQueue' = QueuePut(udpQueue, udpData[s])
  /\ udpData' = [udpData EXCEPT ![s] = NoData]
  /\ wpc' = [wpc EXCEPT ![s] = "loop"]

\* "if len(udpData) > 0: self.udpQueue.put(udpData.decode('utf8'))", and back
\* to the top of the loop, where udpData = ''.
PutChunk(s) ==
  /\ udpQueue' = IF Len(udpData[s].text) > 0 THEN QueuePut(udpQueue, udpData[s])
                 ELSE udpQueue
  /\ udpData' = [udpData EXCEPT ![s] = NoData]
  /\ wpc' = [wpc EXCEPT ![s] = "loop"]

\* "if self.num%100==0:" is false, and the put.
CheckNumPut(s) ==
  /\ wpc[s] = "check"
  /\ num % ResetPeriod # 0
  /\ PutChunk(s)
  /\ UNCHANGED << running, num, numLoad, nread, nfault,
                  dpc, restart, trace, relayVars, frameVars, serialVars, logVars >>

\* "if self.num%100==0:" is true.
CheckNumReset(s) ==
  /\ wpc[s] = "check"
  /\ num % ResetPeriod = 0
  /\ wpc' = [wpc EXCEPT ![s] = "reset"]
  /\ UNCHANGED << running, num, udpQueue, udpData, numLoad, nread, nfault,
                  dpc, restart, trace, relayVars, frameVars, serialVars, logVars >>

\* "self.num=1; udpData=''", then the periodic close and reconnect, which
\* reads again.
ResetNum(s) ==
  /\ wpc[s] = "reset"
  /\ num' = 1
  /\ ReconnectOnce(s, "put")
  /\ UNCHANGED << running, udpQueue, numLoad,
                  dpc, restart, trace, relayVars, frameVars, serialVars, logVars >>

\* The put after the periodic reconnect.
Put(s) ==
  /\ wpc[s] = "put"
  /\ PutChunk(s)
  /\ UNCHANGED << running, num, numLoad, nread, nfault,
                  dpc, restart, trace, relayVars, frameVars, serialVars, logVars >>

Worker(s) ==
  \/ Connect(s)
  \/ LoopExit(s)
  \/ RecvReturns(s)
  \/ RecvFails(s)
  \/ Incr(s)
  \/ Reconnect(s)
  \/ CheckNumPut(s)
  \/ CheckNumReset(s)
  \/ ResetNum(s)
  \/ Put(s)

(***************************************************************************)
(* The main thread: periodicCall and processIncoming, then the main loop.  *)
(* No serial port is configured (serialInPorts = []), so the serial queue  *)
(* stays empty and serialQueue.get(0) fails on every pass.                 *)
(***************************************************************************)

\* An endApplication that leaves the flag as it is (what C38 rules out).
EndApplicationIdle == running' = running

\* An endApplication that turns the flag over (what C37 rules out).
EndApplicationToggling == running' = ~running

\* endApplication: self.running = 0
EndApplication == running' = FALSE

\* processIncoming on the chunk at the head of the queue, until the while is
\* tested again: an exception leaves processIncoming and the loop of
\* periodicCall, whose "except:" calls endApplication and returns to the main
\* program.
EndOfChunk(r) ==
  /\ trace' = trace \o r.events
  /\ restart' = (restart \/ r.restart)
  /\ IF r.raised
     THEN EndApplication /\ dpc' = "main"
     ELSE UNCHANGED << running, dpc >>

\* One pass of the while body whose get returns a chunk: the chunk is logged,
\* framed, validated and relayed.  (The reads of the sizes, the test of the
\* while and the get are one step with the pass: the queue only grows in
\* between, so the get finds the chunk that was at the head when the sizes
\* were read; a pass whose get finds the queue empty changes nothing.  The
\* outbound transport takes every datagram here; a failed send changes nothing
\* but the datagram's fate, and SpecRelay tries both.)
GetChunk ==
  /\ udpQueue # << >>
  /\ \E logOk \in BOOLEAN :
       /\ IF logOk THEN UNCHANGED nfault ELSE Fault(0)
       /\ EndOfChunk(ProcessChunk(Head(udpQueue), logOk, TRUE))
  /\ udpQueue' = Tail(udpQueue)

\* The same pass, the outbound transport taking or refusing the datagrams.
GetChunkAnySend ==
  /\ udpQueue # << >>
  /\ \E logOk \in BOOLEAN, sendOk \in BOOLEAN :
       /\ IF logOk THEN UNCHANGED nfault ELSE Fault(0)
       /\ EndOfChunk(ProcessChunk(Head(udpQueue), logOk, sendOk))
  /\ udpQueue' = Tail(udpQueue)

\* "if not self.running:" join every worker, then sys.exit(1), whose
\* SystemExit the "except:" of periodicCall catches.
JoinWorkers ==
  /\ \A s \in Sources : wpc[s] \in { "exited", "dead" }
  /\ EndApplication
  /\ dpc' = "main"
  /\ UNCHANGED << udpQueue, nfault, restart, trace >>

\* periodicCall: "while True: self.processIncoming(); if not self.running:
\* ...; time.sleep(0.1)".
PeriodicCall ==
  /\ dpc = "tick"
  /\ IF running THEN GetChunk ELSE JoinWorkers
  /\ UNCHANGED << num, wpc, udpData, numLoad, nread, relayVars, frameVars, serialVars, logVars >>

\* The interrupt signal (KeyboardInterrupt) arrives in the main thread while it
\* sleeps, where it spends its time.  Inside periodicCall the "except:" calls
\* endApplication and returns; in the main loop the "except:" calls
\* endApplication and the program closes its socket and log file.
Interrupt ==
  /\ dpc \in { "tick", "main" }
  /\ EndApplication
  /\ dpc' = IF dpc = "main" THEN "closed" ELSE "main"
  /\ UNCHANGED << num, udpQueue, wpc, udpData, numLoad, nread, nfault,
                  restart, trace, relayVars, frameVars, serialVars, logVars >>

Next == (\E s \in Sources : Worker(s)) \/ PeriodicCall \/ Interrupt

Spec == Init /\ [][Next]_vars

(***************************************************************************)
(* The relay policy on one framed sentence: clean_nmea_str, then            *)
(* relayMessage if isGoodStr, as processIncoming applies them.             *)
(***************************************************************************)

\* Field texts of the sentences tried.
FieldTexts ==
  { << >>, << "0" >>, << "0", ".", "0" >>, << "1", "2", ".", "3" >>,
    << "5" >>, << "-", "5" >>, << "x" >> }

\* Identifiers tried: the four depth sentences, the heading, a position fix.
ID_GPGGA == << "$", "G", "P", "G", "G", "A" >>

SentenceIDs == { ID_SDDBS, ID_SDDPT, ID_PKEL9, ID_FKDBS, ID_HEHDT, ID_GPGGA }

\* Data fields of a sentence tried.
NumFields == 6

\* id,f1,...,f6 with field pos = a, field pos+1 = b and the others empty.
RECURSIVE JoinFields(_, _, _, _)
JoinFields(k, pos, a, b) ==
  IF k > NumFields THEN << >>
  ELSE << "," >> \o (IF k = pos THEN a ELSE IF k = pos + 1 THEN b ELSE << >>)
         \o JoinFields(k + 1, pos, a, b)

CoreOf(id, pos, a, b) == id \o JoinFields(1, pos, a, b)

\* The checksum a sentence arrives with: correct and two digits wide, correct
\* and of natural width, of natural width with "*" and a blank after it, or
\* wrong.
CheckSumKinds == { "two", "natural", "trailing", "wrong" }

SentenceOf(core, kind) ==
  LET x == XorAll(SliceFrom(core, 1))
  IN  core \o << "*" >> \o
        (CASE kind = "two" -> Hex2(x)
           [] kind = "natural" -> HexUpper(x)
           [] kind = "trailing" -> HexUpper(x) \o << "*", " " >>
           [] OTHER -> Hex2((x + 1) % 256))

InitRelay ==
  /\ InitPipe
  /\ rpc = "framed"
  /\ \E id \in SentenceIDs, pos \in 1..(NumFields - 1), a \in FieldTexts, b \in FieldTexts,
        kind \in CheckSumKinds :
       rin = SentenceOf(CoreOf(id, pos, a, b), kind)
  /\ rclean = [str |-> << >>, good |-> FALSE]
  /\ rres = NoSend
  /\ FrameIdle
  /\ SerialIdle
  /\ LogIdle

\* "m, isGoodStr = clean_nmea_str(msg)"
Validate ==
  /\ rpc = "framed"
  /\ rclean' = CleanNmeaStr(rin)
  /\ rpc' = "validated"
  /\ UNCHANGED << pipeVars, frameVars, serialVars, logVars, rin, rres >>

\* "if isGoodStr: mout.append(m)" ... "relayMessage(msg, self)"
Relay ==
  /\ rpc = "validated"
  /\ rclean.good
  /\ \E sendOk \in BOOLEAN : rres' = RelayMessage(rclean.str, sendOk)
  /\ rpc' = "relayed"
  /\ UNCHANGED << pipeVars, frameVars, serialVars, logVars, rin, rclean >>

\* isGoodStr is False: the sentence is not appended to mout.
Drop ==
  /\ rpc = "validated"
  /\ ~rclean.good
  /\ rpc' = "dropped"
  /\ UNCHANGED << pipeVars, frameVars, serialVars, logVars, rin, rclean, rres >>

NextRelay == Validate \/ Relay \/ Drop

SpecRelay == InitRelay /\ [][NextRelay]_vars

(***************************************************************************)
(* Properties of the relay policy, checked under SpecRelay.                *)
(***************************************************************************)

\* The fields of a sentence as the interface counts them: field 0 is the
\* identifier, and "*" with the checksum is no part of the last field.
FieldsOf(sentence) == Split(Split(sentence, "*")[1], ",")

IdOf(sentence) == FieldsOf(sentence)[1]

FieldOf(sentence, k) ==
  IF Len(FieldsOf(sentence)) > k THEN FieldsOf(sentence)[k + 1] ELSE << >>

IsNumber(text) == Float(text).ok

IsZero(text) == Float(text).ok /\ ~FloatNonZero(Float(text))

\* The field that carries the depth of a single-depth sentence.
DepthFieldOf(id) ==
  CASE id = ID_SDDBS -> 3
    [] id = ID_FKDBS -> 4
    [] id = ID_PKEL9 -> 5
    [] OTHER -> 1

SingleDepthIDs == { ID_SDDBS, ID_FKDBS, ID_PKEL9 }

\* The depth of the validated sentence, as text.
DepthText == FieldOf(rclean.str, DepthFieldOf(IdOf(rclean.str)))

\* The validated sentence has been handed to relayMessage.
Relayed == rpc = "relayed"

\* C1: a well-formed depth-bearing sentence ($SDDBS, $FKDBS, $PKEL9, $SDDPT)
\* whose depth is exactly zero causes no send.
\* The code lets $FKDBS through: it is not among the identifiers of
\* isDepthDataGram, so it takes the pass-through branch whatever its depth.
C1_ZeroDepthWithheld ==
  (/\ Relayed
   /\ IdOf(rclean.str) \in SingleDepthIDs \cup { ID_SDDPT }
   /\ IsZero(DepthText))
    => \A i \in 1..Len(rres.sends) : ~rres.sends[i].ok

\* C3: a well-formed single-depth sentence ($SDDBS field 3, $FKDBS field 4,
\* $PKEL9 field 5) whose depth is a non-zero number causes exactly one send,
\* of that sentence.
\* The code hands sendto a str for $SDDBS and $PKEL9: TypeError, nothing sent.
C3_NonZeroDepthSentOnce ==
  (/\ Relayed
   /\ IdOf(rclean.str) \in SingleDepthIDs
   /\ IsNumber(DepthText)
   /\ ~IsZero(DepthText))
    => /\ Len(rres.sends) = 1
       /\ Strip(rres.sends[1].payload) = Strip(rclean.str)

\* The two depths of the validated $SDDPT sentence.
BelowTransducer == Float(FieldOf(rclean.str, 1))

BelowSurface == FloatAdd(Float(FieldOf(rclean.str, 1)), Float(FieldOf(rclean.str, 2)))

SddptWithNumbers ==
  /\ Relayed
  /\ IdOf(rclean.str) = ID_SDDPT
  /\ IsNumber(FieldOf(rclean.str, 1))
  /\ IsNumber(FieldOf(rclean.str, 2))

\* C4: for a well-formed $SDDPT sentence with depth d (field 1) and offset o
\* (field 2), relayMessage hands exactly one datagram, the sentence, to the
\* outbound socket iff d # 0 and d + o # 0, and none otherwise; d = 0, o = 5
\* is withheld although d + o = 5.
C4_SddptSentIffBothNonZero ==
  SddptWithNumbers =>
    /\ ~rres.raised
    /\ Len(rres.sends) = IF FloatNonZero(BelowTransducer) /\ FloatNonZero(BelowSurface)
                         THEN 1 ELSE 0
    /\ \A i \in 1..Len(rres.sends) :
         rres.sends[i].payload = Strip(rclean.str) \o << "\n" >>

\* d = 0, o = 5 has been relayed and nothing was sent.
C4_Witness ==
  /\ SddptWithNumbers
  /\ FieldOf(rclean.str, 1) = << "0" >>
  /\ FieldOf(rclean.str, 2) = << "5" >>
  /\ rres.sends = << >>

\* C5: a sentence whose identifier is $HEHDT never causes a send, whatever
\* its other fields and its checksum.
C5_HeadingNeverSent == IdOf(rin) = ID_HEHDT => rres.sends = << >>

\* A $HEHDT sentence with a correct checksum and a number in a field has been
\* handed to relayMessage.
C5_Witness ==
  /\ Relayed
  /\ IdOf(rin) = ID_HEHDT
  /\ \E k \in 1..NumFields : IsNumber(FieldOf(rin, k))

\* The identifiers relayMessage has a rule for.
SpecialIDs == { ID_SDDBS, ID_FKDBS, ID_PKEL9, ID_SDDPT, ID_HEHDT }

Positions(kind) == { i \in 1..Len(trace) : trace[i].kind = kind }

SameChunk(e, f) == e.src = f.src /\ e.seq = f.seq

\* What validation returns for sentence idx of a chunk's text.
CleanedSentence(text, idx) == CleanNmeaStr(MsgSplit(text)[idx])

\* In the history tr, the send at position i is the idx-th framed sentence of
\* the chunk dequeued at position g, which passed validation.
SendOfValidated(tr, i, g) ==
  /\ tr[g].kind = "get"
  /\ g < i
  /\ SameChunk(tr[g], tr[i])
  /\ ~MsgSplitRaises(tr[g].text)
  /\ tr[i].idx \in 1..Len(MsgSplit(tr[g].text))
  /\ CleanedSentence(tr[g].text, tr[i].idx).good
  /\ tr[i].text = Strip(CleanedSentence(tr[g].text, tr[i].idx).str) \o << "\n" >>

\* In the history tr no sentence was sent twice and no chunk dequeued twice.
AtMostOnce(tr) ==
  \A i, j \in 1..Len(tr) :
    (tr[i].kind = tr[j].kind /\ SameChunk(tr[i], tr[j]) /\ tr[i].idx = tr[j].idx)
      => (i = j \/ tr[i].kind = "log")

\* C2: every datagram sent is the cleaned text (stripped, ended by a newline)
\* of a sentence that msg_split framed and clean_nmea_str accepted; a framed
\* sentence of a dequeued chunk causes at most one send; no chunk is dequeued
\* twice.  Stated on the steps that extend the history, which starts empty:
\* what a step adds is validated, and the history stays free of repeats.
C2_OnlyValidatedAtMostOnce ==
  [][trace' # trace =>
       /\ \A i \in (Len(trace) + 1)..Len(trace') :
            trace'[i].kind = "send" => \E g \in 1..(i - 1) : SendOfValidated(trace', i, g)
       /\ AtMostOnce(trace')]_vars

\* A chunk whose first sentence has a wrong checksum has been dispatched: its
\* second and third sentences were sent, its first was not.
C2_Witness ==
  \E g \in Positions("get") :
    /\ trace[g].text = ChunkNavDepth
    /\ ~CleanedSentence(trace[g].text, 1).good
    /\ \A i \in Positions("send") : SameChunk(trace[i], trace[g]) => trace[i].idx # 1
    /\ \E i, j \in Positions("send") :
         /\ SendOfValidated(trace, i, g) /\ trace[i].idx = 2
         /\ SendOfValidated(trace, j, g) /\ trace[j].idx = 3

\* Chunk k of source s is in the queue, or has been dequeued.
Enqueued(s, k) == \E i \in 1..Len(udpQueue) : udpQueue[i].src = s /\ udpQueue[i].seq = k

Dequeued(s, k) == \E g \in Positions("get") : trace[g].src = s /\ trace[g].seq = k

\* Source t is out (it has failed and delivered nothing) while source s has
\* met no failure, and the worker of s is not in the middle of a read.
OutageBeside(s, t) ==
  /\ t # s
  /\ nfault[t] > 0 /\ nread[t] = 0
  /\ nfault[s] = 0
  /\ wpc[s] \in { "loop", "exited" }

\* C6: workers are independent: failures of one source drop no chunk of
\* another; every chunk the other source's worker has read is enqueued, or
\* has been dequeued.
\* The code counts the reads of all workers in one counter, self.num, and a
\* read that returns b'' (the peer has closed) counts: when the count reaches
\* a multiple of 100 in the other worker's hands, that worker discards the
\* chunk it has just read.
C6_OtherSourceChunksKept ==
  \A s, t \in Sources :
    OutageBeside(s, t) => \A k \in 1..nread[s] : Enqueued(s, k) \/ Dequeued(s, k)

\* C7: while running is true a worker never ends because of a transport
\* failure.
\* The code has its first connect, and the connect and the recv of both
\* reconnect loops, outside any try: their failure ends the worker's thread.
C7_WorkerSurvivesFailures == running => \A s \in Sources : wpc[s] # "dead"

\* C8: chunks of one source are dequeued in the order its worker read them.
C8_PerSourceFifo ==
  \A g, h \in Positions("get") :
    (g < h /\ trace[g].src = trace[h].src) => trace[g].seq < trace[h].seq

\* Two chunks that one source delivered in a row have both been dequeued.
C8_Witness ==
  \E g, h \in Positions("get") :
    g < h /\ trace[g].src = trace[h].src /\ trace[g].seq + 1 = trace[h].seq

\* The send at i comes from an earlier dequeue than the send at j, or from the
\* same chunk and an earlier sentence.
DispatchedBefore(i, j) ==
  \E g, h \in Positions("get") :
    /\ SameChunk(trace[g], trace[i])
    /\ SameChunk(trace[h], trace[j])
    /\ g < h \/ (g = h /\ trace[i].idx < trace[j].idx)

\* C9: datagrams leave in the order the dispatch loop processed the sentences:
\* by dequeue order of the chunks, within a chunk by position.
C9_OutboundInDispatchOrder ==
  \A i, j \in Positions("send") : i < j => DispatchedBefore(i, j)

\* Two sentences of one chunk were sent, then a sentence of another chunk.
C9_Witness ==
  \E i, j, k \in Positions("send") :
    /\ i < j /\ j < k
    /\ SameChunk(trace[i], trace[j])
    /\ ~SameChunk(trace[j], trace[k])

\* The event after the get at g is the one hand-over of that chunk to logMessage.
LoggedOnceAt(g) ==
  /\ g < Len(trace)
  /\ trace[g + 1].kind = "log"
  /\ SameChunk(trace[g + 1], trace[g])
  /\ trace[g + 1].text = DatedMsg(trace[g].text)
  /\ \A l \in Positions("log") : SameChunk(trace[l], trace[g]) => l = g + 1
  /\ \A i \in Positions("send") : SameChunk(trace[i], trace[g]) => g + 1 < i

CleanChars == { "7", "z", "p", ",", "x" }

\* Cores with a comma at offset 6, and with commas at offsets 6 and 7.
CleanCores ==
  { ID_GPGGA \o << ",", c >> : c \in CleanChars }
    \cup { ID_GPGGA \o << ",", ",", c >> : c \in CleanChars }

\* The sentences a sensor makes of them.
CleanBases == { SentenceOf(core, kind) : core \in CleanCores, kind \in CheckSumKinds }

\* The bytes of core: what lies between "$" and the first "*".
CorePositions(sentence) == 2..Find(sentence, "*")

\* Bytes a transmission error puts in place of another.
MutationBytes == { ",", "x", "*", "7" }

\* sentence with the byte at position p replaced by b.
Mutate(sentence, p, b) == [sentence EXCEPT ![p] = b]

MutatedBases ==
  { Mutate(S, p, b) : S \in { SentenceOf(core, "two") : core \in CleanCores },
                      p \in 2..(Len(ID_GPGGA) + 3), b \in MutationBytes }

\* str.upper() and str.lower() on the letters that occur here, the
\* hexadecimal digits.
UpperChar(c) ==
  CASE c = "a" -> "A" [] c = "b" -> "B" [] c = "c" -> "C"
    [] c = "d" -> "D" [] c = "e" -> "E" [] c = "f" -> "F" [] OTHER -> c

LowerChar(c) ==
  CASE c = "A" -> "a" [] c = "B" -> "b" [] c = "C" -> "c"
    [] c = "D" -> "d" [] c = "E" -> "e" [] c = "F" -> "f" [] OTHER -> c

Upper(text) == [i \in 1..Len(text) |-> UpperChar(text[i])]

Lower(text) == [i \in 1..Len(text) |-> LowerChar(text[i])]

\* The sentences of a sensor that writes its checksum in lower case.
LowerBases ==
  { core \o << "*" >> \o Lower(Hex2(XorAll(SliceFrom(core, 1)))) : core \in CleanCores }

\* Sentences cut short after "*", or one character after it.
ShortBases ==
  { core \o << "*" >> : core \in CleanCores }
    \cup { core \o << "*", "7" >> : core \in CleanCores }

\* S with the bytes b1 and b2 put in at offsets 6 and 7.
Insert2(S, b1, b2) == Slice(S, 0, 6) \o << b1, b2 >> \o SliceFrom(S, 6)

\* The two bytes the faulty sensor puts in; the first is no comma.
InsertedFirst == { "x", "7", "*" }

InsertedSecond == { ",", "x", "$" }

InsertedBases ==
  { Insert2(S, b1, b2) : S \in CleanBases, b1 \in InsertedFirst, b2 \in InsertedSecond }

InitClean ==
  /\ InitPipe
  /\ rpc = "framed"
  /\ rin \in { t \in CleanBases \cup MutatedBases \cup LowerBases \cup ShortBases
                      \cup InsertedBases : Len(t) >= 9 }
  /\ rclean = [str |-> << >>, good |-> FALSE]
  /\ rres = NoSend
  /\ FrameIdle
  /\ SerialIdle
  /\ LogIdle

SpecClean == InitClean /\ [][NextRelay]_vars

\* "$" + core + "*" + the two-digit upper-case hexadecimal XOR of core, with a
\* comma at offset 6 and at least 9 characters.
CorrectlySummed(sentence) ==
  /\ Len(sentence) >= 9
  /\ sentence[1] = "$"
  /\ sentence[7] = ","
  /\ Find(sentence, "*") = Len(sentence) - 3
  /\ SliceFrom(sentence, Len(sentence) - 2)
       = Hex2(XorAll(Slice(sentence, 1, Len(sentence) - 3)))

\* C11: a sentence "$" + core + "*" + checksum of length >= 9 with a comma at
\* offset 6, whose checksum is the correct two-digit upper-case hexadecimal
\* XOR of core, is accepted and returned unchanged, for every XOR value.
\* The code compares with hex(checkSum)[2:], which has one digit below 0x10:
\* "$GPGGA,z*00" is rejected.
C11_CheckSumRoundTrip ==
  (rpc # "framed" /\ CorrectlySummed(rin)) => (rclean.good /\ rclean.str = rin)

\* rin is S with one byte of its core changed, S being a sentence that
\* clean_nmea_str accepts.
MutationOf(S) ==
  /\ Len(rin) = Len(S)
  /\ \E p \in CorePositions(S) :
       rin[p] # S[p] /\ \A q \in 1..Len(S) : q # p => rin[q] = S[q]
  /\ CleanNmeaStr(S).good

\* C12: changing one byte of the core of an accepted sentence, the checksum
\* characters staying as they are, makes clean_nmea_str reject it.
\* The code removes offsets 6 and 7 when offset 6 is no comma: in
\* "$GPGGA,,7*61" the comma at offset 6 changed to "x" gives "$GPGGAx,7*61",
\* which is repaired to "$GPGGA7*61" and accepted, the two commas cancelling
\* in the XOR.
C12_MutationRejected ==
  (rpc # "framed" /\ \E S \in CleanBases : MutationOf(S)) => ~rclean.good

(***************************************************************************)
(* msg_split on chunks made of sentences and what ends them: SpecFrame     *)
(* frames one chunk, as processIncoming does.                              *)
(***************************************************************************)

\* Sentences in a chunk tried.
MaxPieces == 3

\* Sentences without a "$" inside: "$AA,1*1B", "$BB,2*2C" and a bare "$".
FrameSentences ==
  { << "$", "A", "A", ",", "1", "*", "1", "B" >>,
    << "$", "B", "B", ",", "2", "*", "2", "C" >>,
    << "$" >> }

\* What follows a sentence in the chunk: nothing, a newline, or CR and LF.
FrameEnds == { << >>, << "\n" >>, << "\r", "\n" >> }

\* What precedes the first "$" of the chunk: nothing, or noise.
FramePrefixes == { << >>, << "x" >> }

FramePieces == [sentence : FrameSentences, end : FrameEnds]

PieceText(piece) == piece.sentence \o piece.end

RECURSIVE Concat(_)
Concat(texts) == IF Len(texts) = 0 THEN << >> ELSE Head(texts) \o Concat(Tail(texts))

\* The chunk as the worker reads it.
ChunkOf(c) == c.prefix \o Concat([i \in 1..Len(c.pieces) |-> PieceText(c.pieces[i])])

InitFrame ==
  /\ InitPipe
  /\ RelayIdle
  /\ SerialIdle
  /\ LogIdle
  /\ fpc = "chunk"
  /\ \E n \in 1..MaxPieces, prefix \in FramePrefixes :
       \E pieces \in [1..n -> FramePieces] :
          fin = [prefix |-> prefix, pieces |-> pieces]
  /\ fout = << >>

\* "msgs = msg_split(msg)"
Frame ==
  /\ fpc = "chunk"
  /\ ~MsgSplitRaises(ChunkOf(fin))
  /\ fout' = MsgSplit(ChunkOf(fin))
  /\ fpc' = "framed"
  /\ UNCHANGED << pipeVars, relayVars, serialVars, logVars, fin >>

NextFrame == Frame

SpecFrame == InitFrame /\ [][NextFrame]_vars

\* text without its last byte.
AllButLast(text) == SubSeq(text, 1, Len(text) - 1)

\* The chunk begins with "$" and each of its sentences is followed by
\* exactly one byte.
OneTerminatorEach ==
  /\ fin.prefix = << >>
  /\ \A i \in 1..Len(fin.pieces) : Len(fin.pieces[i].end) = 1

\* C13: for a chunk that begins with "$" and is made of k sentences, each
\* followed by exactly one terminator byte, msg_split returns those k
\* sentences in order without their terminators; in any chunk that begins
\* with "$", each emitted sentence is the span from its "$" up to, and
\* excluding, the byte before the next "$" or the end of the chunk.
C13_FramerTrimming ==
  (fpc = "framed" /\ fin.prefix = << >>) =>
    /\ Len(fout) = Len(fin.pieces)
    /\ \A i \in 1..Len(fin.pieces) : fout[i] = AllButLast(PieceText(fin.pieces[i]))
    /\ OneTerminatorEach => \A i \in 1..Len(fin.pieces) : fout[i] = fin.pieces[i].sentence

\* "$AA,1*1B\n$BB,2*2C\n" has been framed into "$AA,1*1B" and "$BB,2*2C".
C13_Witness ==
  /\ fpc = "framed"
  /\ OneTerminatorEach
  /\ ChunkOf(fin) = << "$", "A", "A", ",", "1", "*", "1", "B", "\n",
                       "$", "B", "B", ",", "2", "*", "2", "C", "\n" >>
  /\ fout = << << "$", "A", "A", ",", "1", "*", "1", "B" >>,
               << "$", "B", "B", ",", "2", "*", "2", "C" >> >>

(***************************************************************************)
(* The dispatch loop on chunks that wait in the queue: SpecDispatch is the *)
(* main thread alone, one worker having delivered what is queued.          *)
(***************************************************************************)

\* Chunks waiting in the queue at most.
MaxQueued == 2

\* "$SDDBS,,,0.0,,*hh$SDDBS,,,10.0,,*hh\n": two depths run together.
ChunkTwoDepths ==
  WithCheckSum(ID_SDDBS \o << ",", ",", ",", "0", ".", "0", ",", "," >>)
    \o WithCheckSum(ID_SDDBS \o << ",", ",", ",", "1", "0", ".", "0", ",", "," >>)
    \o << "\n" >>

\* "$SDDPT,x,1*hh\n$GPGGA,7*hh\n": a depth that is no number, then a fix.
ChunkBadDepthThenNav ==
  ChunkBadDepth
    \o WithCheckSum(<< "$", "G", "P", "G", "G", "A", ",", "7" >>) \o << "\n" >>

\* "$SDDPT,,1*hh\n$GPGGA,7*hh\n": an empty depth, then a fix.
ChunkEmptyDepthThenNav ==
  WithCheckSum(ID_SDDPT \o << ",", ",", "1" >>) \o << "\n" >>
    \o WithCheckSum(<< "$", "G", "P", "G", "G", "A", ",", "7" >>) \o << "\n" >>

\* "$SDDBS,1*hh\n$GPGGA,7*hh\n": the depth field (3) is missing, then a fix.
ChunkMissingFieldThenNav ==
  WithCheckSum(ID_SDDBS \o << ",", "1" >>) \o << "\n" >>
    \o WithCheckSum(<< "$", "G", "P", "G", "G", "A", ",", "7" >>) \o << "\n" >>

\* "x$GPGGA,7*hh\n": a stray byte, then a position fix.
ChunkNoiseThenNav ==
  << "x" >> \o WithCheckSum(<< "$", "G", "P", "G", "G", "A", ",", "7" >>) \o << "\n" >>

DispatchTexts ==
  { ChunkNavDepth, ChunkNoise, ChunkNoiseThenNav, ChunkTwoDepths,
    ChunkBadDepthThenNav, ChunkEmptyDepthThenNav, ChunkMissingFieldThenNav }

\* Worker 1 has read and put n chunks, none yet dispatched; worker 2 is still
\* connecting.
InitQueued ==
  /\ running = TRUE
  /\ \E n \in 1..MaxQueued :
       /\ \E texts \in [1..n -> DispatchTexts] :
            udpQueue = [i \in 1..n |-> [src |-> 1, seq |-> i, text |-> texts[i]]]
       /\ num = 1 + n
       /\ nread = [s \in Sources |-> IF s = 1 THEN n ELSE 0]
  /\ wpc = [s \in Sources |-> IF s = 1 THEN "loop" ELSE "connect"]
  /\ udpData = [s \in Sources |-> NoData]
  /\ numLoad = [s \in Sources |-> 0]
  /\ nfault = [t \in Sources \cup { 0 } |-> 0]
  /\ dpc = "tick"
  /\ restart = FALSE
  /\ trace = << >>
  /\ RelayIdle
  /\ FrameIdle

InitDispatch == InitQueued /\ SerialIdle /\ LogIdle

\* periodicCall, the transport taking or refusing the datagrams.
PeriodicCallAnySend ==
  /\ dpc = "tick"
  /\ IF running THEN GetChunkAnySend ELSE JoinWorkers
  /\ UNCHANGED << num, wpc, udpData, numLoad, nread, relayVars, frameVars, serialVars, logVars >>

NextDispatch == PeriodicCallAnySend

SpecDispatch == InitDispatch /\ [][NextDispatch]_vars

\* The sends of sentence idx of the chunk dequeued at position g.
SendsOf(g, idx) ==
  { i \in Positions("send") : SameChunk(trace[i], trace[g]) /\ trace[i].idx = idx }

\* logMessage returned for the chunk dequeued at position g.
LoggedOk(g) == g < Len(trace) /\ trace[g + 1].kind = "log" /\ trace[g + 1].ok

\* The second sentence of ChunkTwoDepths: "$SDDBS,,,10.0,,*hh".
NonZeroDepthSentence ==
  WithCheckSum(ID_SDDBS \o << ",", ",", ",", "1", "0", ".", "0", ",", "," >>)

\* C14: a chunk of two $SDDBS sentences run together, depths 0.0 and 10.0,
\* then one newline: the chunk is logged, exactly one datagram is sent, the
\* 10.0 sentence, and none for the 0.0 sentence.
\* The code sends nothing at all: the 10.0 sentence reaches sendto as a str
\* (C3).  The 0.0 sentence is not withheld for its depth either: msg_split
\* cuts the last character of its checksum and validation rejects it.
C14_TwoDepthsOneSent ==
  \A g \in Positions("get") :
    (trace[g].text = ChunkTwoDepths /\ LoggedOk(g)) =>
      /\ SendsOf(g, 1) = {}
      /\ Cardinality(SendsOf(g, 2)) = 1
      /\ \A i \in SendsOf(g, 2) : Strip(trace[i].text) = NonZeroDepthSentence

\* Sentence idx of the chunk's text passes validation, is a depth sentence,
\* and its depth field is no number, empty or missing.
DepthErrorAt(text, idx) ==
  /\ idx \in 1..Len(MsgSplit(text))
  /\ CleanedSentence(text, idx).good
  /\ IdOf(CleanedSentence(text, idx).str) \in SingleDepthIDs \cup { ID_SDDPT }
  /\ ~IsNumber(FieldOf(CleanedSentence(text, idx).str,
                       DepthFieldOf(IdOf(CleanedSentence(text, idx).str))))

\* Sentence idx of the chunk's text passes validation and is a position fix.
NavAt(text, idx) ==
  /\ CleanedSentence(text, idx).good
  /\ IdOf(CleanedSentence(text, idx).str) = ID_GPGGA

\* C18: a validated depth sentence whose depth field is no number, empty or
\* missing is skipped alone: nothing is sent for it, running stays true and
\* the sentences after it are processed.
\* The code calls float() and indexes fields outside any try: the exception
\* leaves relayMessage and processIncoming, and periodicCall's "except:"
\* calls endApplication; the sentences after it are never relayed.
C18_DepthErrorSkipped ==
  \A g \in Positions("get") :
    (LoggedOk(g) /\ DepthErrorAt(trace[g].text, 1)) =>
      /\ SendsOf(g, 1) = {}
      /\ nfault[0] = 0 => running
      /\ \A idx \in 2..Len(MsgSplit(trace[g].text)) :
           NavAt(trace[g].text, idx) => SendsOf(g, idx) # {}

\* No sentence of the chunk's text makes relayMessage raise.
NoDepthError(text) ==
  \A idx \in 1..Len(MsgSplit(text)) : ~DepthErrorAt(text, idx)

\* Sentence idx of the chunk's text is one that relayMessage hands to the
\* outbound socket when the transport works.
Relayable(text, idx) ==
  /\ CleanedSentence(text, idx).good
  /\ RelayMessage(CleanedSentence(text, idx).str, TRUE).sends # << >>

Ended(s) == wpc[s] \in { "exited", "dead" }

\* periodicCall has returned to the main program.
DispatchReturned == dpc \in { "main", "closed" }

\* C15: in no reachable state has the dispatch loop (periodicCall) returned
\* while an ingestion worker is still running: it returns only after every
\* worker has exited.
C15_ReturnsAfterWorkersExit ==
  DispatchReturned => \A s \in Sources : Ended(s)

\* The scheduler runs every worker thread that can take a step; the interrupt
\* is the environment's and need never come.  (Once running is false the main
\* thread is past periodicCall, so its scheduling plays no part.)
FairSpec ==
  /\ Spec
  /\ \A s \in Sources : WF_vars(Worker(s))

\* The workers and the shutdown signal alone: a pass of the dispatcher leaves
\* every variable of the workers as it is, and clears the flag only as the
\* interrupt does, so the workers' way out of their loops is the same without
\* its passes.
NextShutdown == (\E s \in Sources : Worker(s)) \/ Interrupt

SpecShutdown ==
  /\ Init
  /\ [][NextShutdown]_vars
  /\ \A s \in Sources : WF_vars(Worker(s))

C17_ExitsAfterOneInterrupt ==
  (~running) ~> (dpc = "closed")

(***************************************************************************)
(* The dispatch loop draining its queue.                                   *)
(***************************************************************************)

\* The main thread runs whenever it can take a pass; no shutdown signal comes.
SpecDrain == SpecDispatch /\ WF_vars(PeriodicCallAnySend)

\* Chunk k of source s has been written to the log.
Logged(s, k) ==
  \E i \in Positions("log") : trace[i].src = s /\ trace[i].seq = k /\ trace[i].ok

\* A write of the log has failed.
LogFailed == \E i \in Positions("log") : ~trace[i].ok

\* C21: every chunk a worker has put on the queue is eventually written to
\* the log, whatever is decided for the sentences of the chunks before it,
\* unless the log itself cannot be written.
C21_EnqueuedEventuallyLogged ==
  \A s \in Sources, k \in 1..MaxQueued :
    Enqueued(s, k) ~> (Logged(s, k) \/ LogFailed)

(***************************************************************************)
(* The workers and what they share, checked under Spec.                    *)
(***************************************************************************)

\* Worker s still holds chunk k in its local udpData.
Held(s, k) == udpData[s].src = s /\ udpData[s].seq = k

\* C22: every non-empty chunk a worker has read is put on the queue: at any
\* time it is still in the worker's hands, in the queue, or dequeued; the
\* worker never discards or overwrites it first.
C22_ReadChunksEnqueued ==
  \A s \in Sources : \A k \in 1..nread[s] :
    Held(s, k) \/ Enqueued(s, k) \/ Dequeued(s, k)

\* Worker s is between the load and the store of its "self.num+=1", before
\* and after the step.
InsideIncrement(s) == wpc[s] = "incr" /\ wpc'[s] = "incr"

\* C23: the queue and the running flag are the only state the threads share:
\* no other variable that one worker writes is read or written by another.
\* For the read counter a worker updates, this says that no step of another
\* thread changes it while the worker is between its load and its store.
C23_OnlyQueueAndFlagShared ==
  [][\A s \in Sources : InsideIncrement(s) => num' = num]_vars

\* q begins with p.
IsPrefix(p, q) == Len(p) <= Len(q) /\ SubSeq(q, 1, Len(p)) = p

\* The step is a worker's: every step of udpThread moves its position.
WorkerStep == wpc' # wpc

\* C24: the outbound socket and the log file are used by the main thread
\* alone, and the workers only enqueue: a step of a worker sends nothing,
\* logs nothing and takes nothing off the queue, and every step that logs,
\* sends or dequeues is a step of the main thread inside periodicCall.
C24_SingleOwner ==
  [][/\ WorkerStep => trace' = trace /\ IsPrefix(udpQueue, udpQueue')
     /\ (trace' # trace \/ ~IsPrefix(udpQueue, udpQueue')) => dpc = "tick" /\ ~WorkerStep]_vars

\* The main thread has logged and sent one worker's chunk, and another
\* worker has put a chunk that waits in the queue.
C24_Witness ==
  /\ Positions("log") # { }
  /\ \E i \in Positions("send") : \E j \in 1..Len(udpQueue) :
       udpQueue[j].src # trace[i].src

(***************************************************************************)
(* The program with a serial port configured (serialInPorts = [port]):     *)
(* serialThread, and processIncoming polling both queues.                  *)
(***************************************************************************)

\* Lines read from the serial port in a run.
MaxSerialReads == 2

\* What ser.readline() returns: bytes, one line of the instrument.
SerialLines ==
  { WithCheckSum(<< "$", "G", "P", "G", "G", "A", ",", "7" >>) \o << "\r", "\n" >>,
    WithCheckSum(ID_SDDPT \o << ",", "5", ",", "1" >>) \o << "\r", "\n" >> }

\* Lines read from the serial port so far.
SerialCount == Cardinality(Positions("drop")) + Len(serialQueue)

\* "if len(serialData) > 0: self.serialQueue.put(serialData)"
SerialPut(line) ==
  IF Len(line) > 0
  THEN Append(serialQueue, [src |-> 0, seq |-> SerialCount + 1, text |-> line])
  ELSE serialQueue

\* "serialData = self.ser.readline()" returns a line, or b'' when it times
\* out, and the put.
SerialRead ==
  /\ spc = "loop"
  /\ running
  /\ SerialCount < MaxSerialReads
  /\ \E line \in SerialLines \cup { << >> } : serialQueue' = SerialPut(line)
  /\ UNCHANGED << pipeVars, relayVars, frameVars, spc, logVars >>

\* "while self.running:" is false: the port is closed and the thread ends.
SerialExit ==
  /\ spc = "loop"
  /\ ~running
  /\ spc' = "exited"
  /\ UNCHANGED << pipeVars, relayVars, frameVars, serialQueue, logVars >>

\* "try: msg = self.serialQueue.get(0); print("Serial In: "+msg) except:
\* getFailed = True".  get(0) does not wait: on an empty queue it raises
\* queue.Empty at once.  On a chunk, msg is bytes and str + bytes raises
\* TypeError, which the same bare except takes for a failed get: the chunk is
\* off the queue and nothing more is done with it.
SerialGet(q) ==
  IF q = << >> THEN << >>
  ELSE << Event("drop", Head(q), 0, Head(q).text, FALSE) >>

\* A pass that polls the network queue before the serial queue (what C27
\* rules out).
PollOrderReversed(serialEvents, udpEvents) == udpEvents \o serialEvents

\* One pass of the while body: the serial queue is polled first, then the
\* network queue.
PollOrder(serialEvents, udpEvents) == serialEvents \o udpEvents

\* What a pass did: the poll of the serial queue, then the network chunk.
AfterSerial(serialEvents, r) ==
  [events |-> PollOrder(serialEvents, r.events), raised |-> r.raised,
   restart |-> r.restart]

\* "self.udpQueue.get(block=False, timeout=2)" raises queue.Empty at once.
NoChunk == [events |-> << >>, raised |-> FALSE, restart |-> FALSE]

\* One pass of "while serialQueueSize > 0 or udpQueueSize > 0:".
GetBoth ==
  /\ serialQueue # << >> \/ udpQueue # << >>
  /\ serialQueue' = IF serialQueue = << >> THEN serialQueue ELSE Tail(serialQueue)
  /\ IF udpQueue = << >>
     THEN /\ EndOfChunk(AfterSerial(SerialGet(serialQueue), NoChunk))
          /\ UNCHANGED << udpQueue, nfault >>
     ELSE /\ \E logOk \in BOOLEAN, sendOk \in BOOLEAN :
               /\ IF logOk THEN UNCHANGED nfault ELSE Fault(0)
               /\ EndOfChunk(AfterSerial(SerialGet(serialQueue),
                                         ProcessChunk(Head(udpQueue), logOk, sendOk)))
          /\ udpQueue' = Tail(udpQueue)

\* periodicCall with both queues in use.
PeriodicCallBoth ==
  /\ dpc = "tick"
  /\ IF running THEN GetBoth ELSE JoinWorkers /\ UNCHANGED serialQueue
  /\ UNCHANGED << num, wpc, udpData, numLoad, nread, relayVars, frameVars, spc, logVars >>

\* The serial thread is running beside the chunks worker 1 has put.
InitSerial ==
  /\ InitQueued
  /\ serialQueue = << >>
  /\ spc = "loop"
  /\ LogIdle

NextSerial == SerialRead \/ SerialExit \/ PeriodicCallBoth \/ Interrupt

\* The main thread runs whenever it can take a pass.
SpecSerial == InitSerial /\ [][NextSerial]_vars /\ WF_vars(PeriodicCallBoth)

\* The chunk taken off a queue at position i of the history is logged next.
LoggedNext(i) ==
  /\ i < Len(trace)
  /\ trace[i + 1].kind = "log"
  /\ SameChunk(trace[i], trace[i + 1])
  /\ trace[i + 1].text = DatedMsg(trace[i].text)

\* C25: a chunk taken off either queue, the serial queue as well as the
\* network queue, is logged before anything else is done with it (it is then
\* framed, validated and relayed, and the loop goes on).
C25_EveryDequeuedChunkLogged ==
  \A i \in Positions("get") \cup Positions("drop") : LoggedNext(i)

\* Line k of the serial port waits in the serial queue.
SerialEnqueued(k) == \E i \in 1..Len(serialQueue) : serialQueue[i].seq = k

\* Line k of the serial port has been logged.
SerialLogged(k) == \E i \in Positions("log") : trace[i].src = 0 /\ trace[i].seq = k

\* C26: an empty queue never holds up the dispatch loop: with the network
\* queue empty for good, a line waiting in the serial queue is still
\* eventually processed (logged, to begin with), unless the loop is shut down.
C26_SerialProcessedBesideEmptyQueue ==
  \A k \in 1..MaxSerialReads : SerialEnqueued(k) ~> (SerialLogged(k) \/ ~running)

\* What the step has added to the history.
Added == SubSeq(trace', Len(trace) + 1, Len(trace'))

\* The payloads sent for the chunk dequeued at position g, in order.
RECURSIVE PayloadsFrom(_, _)
PayloadsFrom(g, i) ==
  IF i > Len(trace) \/ trace[i].kind \in { "get", "drop" } THEN << >>
  ELSE (IF trace[i].kind = "send" THEN << trace[i].text >> ELSE << >>)
         \o PayloadsFrom(g, i + 1)

\* C27: the queues are polled in one fixed order on every pass, one dequeue
\* attempt each: a pass that finds a chunk in both takes exactly the head of
\* each, the serial one first.  What is sent for a chunk depends on its text
\* alone, so the same arrivals give the same datagrams in the same order.
C27_FixedPollOrder ==
  [][trace' # trace =>
       /\ serialQueue # << >> =>
            /\ Added[1] = Event("drop", Head(serialQueue), 0, Head(serialQueue).text, FALSE)
            /\ serialQueue' = Tail(serialQueue)
       /\ udpQueue # << >> =>
            /\ Added[Len(SerialGet(serialQueue)) + 1] =
                 Event("get", Head(udpQueue), 0, Head(udpQueue).text, TRUE)
            /\ udpQueue' = Tail(udpQueue)
       /\ \A i \in 1..Len(Added) :
            /\ Added[i].kind = "drop" => i = 1
            /\ Added[i].kind = "get" => i = Len(SerialGet(serialQueue)) + 1
       /\ \A g, h \in { i \in 1..Len(trace') : trace'[i].kind = "get" } :
            (trace'[g].text = trace'[h].text /\ trace'[g + 1].ok /\ trace'[h + 1].ok)
              => PayloadsFrom(g, g + 1)' = PayloadsFrom(h, h + 1)']_vars

\* A pass has found a chunk in both queues and has sent the network chunk's
\* sentences.
C27_Witness ==
  \E i \in Positions("drop") :
    /\ i + 2 < Len(trace)
    /\ trace[i + 1].kind = "get"
    /\ trace[i + 3].kind = "send"

(***************************************************************************)
(* Chunks that do not begin with "$", checked under SpecDispatch.          *)
(***************************************************************************)

\* The chunk dequeued at position g does not begin with "$", and has been
\* logged.
NoiseLoggedAt(g) ==
  /\ Len(trace[g].text) > 0
  /\ trace[g].text[1] # "$"
  /\ LoggedOk(g)

\* C28: a chunk whose first character is not "$" is framed into no sentence
\* at all, even if "$" and a sentence follow in it: nothing of it is sent, no
\* error is raised (the loop goes on to the next chunk, or stays ready for
\* it), and its log line is all that is left of it.
C28_NoiseDiscarded ==
  \A g \in Positions("get") :
    NoiseLoggedAt(g) =>
      /\ MsgSplit(trace[g].text) = << >>
      /\ \A i \in Positions("send") : ~SameChunk(trace[i], trace[g])
      /\ g + 2 <= Len(trace) => trace[g + 2].kind = "get"
      /\ g + 1 = Len(trace) => running /\ dpc = "tick"

\* "x$GPGGA,7*hh\n" has been dispatched, and after it a chunk of which a
\* sentence was sent.
C28_Witness ==
  \E g \in Positions("get") :
    /\ trace[g].text = ChunkNoiseThenNav
    /\ NoiseLoggedAt(g)
    /\ \E i \in Positions("send") : i > g

(***************************************************************************)
(* The checksum comparison, checked under SpecClean.                       *)
(***************************************************************************)

\* "$", a comma at offset 6, at least 9 characters and a "*".
WellShaped(sentence) ==
  /\ Len(sentence) >= 9
  /\ sentence[1] = "$"
  /\ sentence[7] = ","
  /\ Find(sentence, "*") > -1

\* What lies before the first "*", and the two characters after it.
CoreText(sentence) == Split(sentence, "*")[1]

CheckSumText(sentence) == Slice(Split(sentence, "*")[2], 0, 2)

\* C29: the checksum comparison does not depend on the case of the
\* hexadecimal digits: a sentence is accepted when the upper-case form of its
\* checksum characters is the upper-case form of the XOR the code computes.
C29_CheckSumAnyCase ==
  (/\ rpc # "framed"
   /\ WellShaped(rin)
   /\ Upper(CheckSumText(rin)) = Upper(CheckSumOf(CoreText(rin))))
    => rclean.good

\* The text between the first "*" and the next (or the end) has fewer than
\* two characters.
ShortCheckSum(sentence) == WellShaped(sentence) /\ Len(Split(sentence, "*")[2]) < 2

\* C30 as stated: when the text after "*" has fewer than 2 characters, the
\* sentence is accepted as it is: isGoodStr is True and the text unmodified.
C30_ShortCheckSumAccepted ==
  (rpc # "framed" /\ ShortCheckSum(rin)) => (rclean.good /\ rclean.str = rin)

\* C30, amended: when the text after "*" has fewer than 2 characters, the
\* text is returned unmodified, and isGoodStr is True exactly when that text
\* is the XOR of core as the code writes it, in upper-case hexadecimal
\* without padding; an empty checksum is never accepted.
C30_ShortCheckSumStillCompared ==
  (rpc # "framed" /\ ShortCheckSum(rin)) =>
    /\ rclean.str = rin
    /\ rclean.good <=> Split(rin, "*")[2] = CheckSumOf(CoreText(rin))
    /\ Split(rin, "*")[2] = << >> => ~rclean.good

\* A sentence with the one-digit checksum of its core has been accepted.
C30_Witness ==
  /\ rpc # "framed"
  /\ ShortCheckSum(rin)
  /\ Len(Split(rin, "*")[2]) = 1
  /\ rclean.good

(***************************************************************************)
(* The repair at offset 6, checked under SpecClean.                        *)
(***************************************************************************)

\* rin is S, a sentence that clean_nmea_str accepts and that has a comma at
\* offset 6, with two bytes put in at offsets 6 and 7, the first no comma.
InsertionOf(S) ==
  /\ Len(S) >= 9
  /\ S[7] = ","
  /\ CleanNmeaStr(S).good
  /\ \E b1 \in InsertedFirst, b2 \in InsertedSecond : rin = Insert2(S, b1, b2)

C32_LogFailureAborts ==
  /\ [](LogFailed => ~running)
  /\ [][LogFailed => trace' = trace]_vars
  /\ LogFailed ~> (dpc = "closed")

(***************************************************************************)
(* The log file and its rotation: logMessage, called again and again as    *)
(* time passes.  SpecLog runs logMessage alone, in three steps: the test   *)
(* of the elapsed time with the closing of the old file, the opening of    *)
(* the new file, and the writing of the line.                              *)
(***************************************************************************)

\* MINUTES_PER_LOG.
MinutesPerLog == 60

\* The clock stops here, and so many lines are logged.
MaxClock == 130

MaxLogLines == 3

\* Time passes between two calls by one of these numbers of minutes.
Ticks == {30, 31}

\* "secondsSinceLastNewLog > MINUTES_PER_LOG*60", off by one: at the limit.
RotationDueAtLimit ==
  \/ timeLastLogStarted.inf
  \/ clock - timeLastLogStarted.t >= MinutesPerLog

\* "time.time() - timeLastLogStarted > MINUTES_PER_LOG*60", in minutes; the
\* difference with float('-inf') is inf, greater than any number.
RotationDue ==
  \/ timeLastLogStarted.inf
  \/ clock - timeLastLogStarted.t > MinutesPerLog

LinesLogged == SumOver([i \in DOMAIN logFiles |-> Len(logFiles[i].lines)], DOMAIN logFiles)

\* "if logFid != 0: logFid.close()".
CloseLog ==
  IF logFid # 0
    THEN [logFiles EXCEPT ![logFid].open = FALSE]
    ELSE logFiles

\* logMessage is entered: the test of the elapsed time and, when a new file
\* is due, the closing of the one in use.
LogMessageTest ==
  /\ lpc = "ready"
  /\ LinesLogged < MaxLogLines
  /\ IF RotationDue
       THEN /\ logFiles' = CloseLog
            /\ lpc' = "open"
       ELSE /\ lpc' = "write"
            /\ UNCHANGED logFiles
  /\ UNCHANGED << clock, logFid, timeLastLogStarted >>
  /\ UNCHANGED << pipeVars, relayVars, frameVars, serialVars >>

\* "logFid = open(newLogName,'w'); timeLastLogStarted = time.time()": the
\* file is made, named after the time, or open raises.
LogMessageOpen ==
  /\ lpc = "open"
  /\ \E openOk \in BOOLEAN :
       IF openOk
         THEN /\ logFiles' = Append(logFiles, [opened |-> clock, open |-> TRUE, lines |-> << >>])
              /\ logFid' = Len(logFiles) + 1
              /\ timeLastLogStarted' = At(clock)
              /\ lpc' = "write"
         ELSE /\ lpc' = "raised"
              /\ UNCHANGED << logFiles, logFid, timeLastLogStarted >>
  /\ UNCHANGED clock
  /\ UNCHANGED << pipeVars, relayVars, frameVars, serialVars >>

\* "logFid.write(msg); logFid.flush()": the line, here its number, is put at
\* the end of the file logFid names.
LogMessageWrite ==
  /\ lpc = "write"
  /\ logFiles' = [logFiles EXCEPT ![logFid].lines = Append(@, LinesLogged + 1)]
  /\ lpc' = "ready"
  /\ UNCHANGED << clock, logFid, timeLastLogStarted >>
  /\ UNCHANGED << pipeVars, relayVars, frameVars, serialVars >>

\* Time passes between two calls of logMessage.
TimePasses ==
  /\ lpc = "ready"
  /\ \E d \in Ticks :
       /\ clock + d <= MaxClock
       /\ clock' = clock + d
  /\ UNCHANGED << logFid, timeLastLogStarted, logFiles, lpc >>
  /\ UNCHANGED << pipeVars, relayVars, frameVars, serialVars >>

NextLog == LogMessageTest \/ LogMessageOpen \/ LogMessageWrite \/ TimePasses

SpecLog == Init /\ [][NextLog]_vars

OpenFiles == {i \in DOMAIN logFiles : logFiles[i].open}

LastFile == logFiles[Len(logFiles)]

\* C33: the first call of logMessage opens a log file; a later call opens a
\* new one exactly when more than MINUTES_PER_LOG minutes have passed since
\* the file in use was opened, and it has closed that file before; at most
\* one log file is open at any time, and each line goes to the file opened
\* last.  (A call in which open raises writes no line.)
C33_LogRotation ==
  /\ [](Cardinality(OpenFiles) <= 1)
  /\ [][Len(logFiles') > Len(logFiles) =>
          /\ OpenFiles = {}
          /\ logFiles # << >> => clock - LastFile.opened > MinutesPerLog]_vars
  /\ [][(lpc = "write" /\ lpc' = "ready") =>
          /\ logFiles' # << >>
          /\ Len(logFiles') = Len(logFiles)
          /\ OpenFiles = {Len(logFiles)}
          /\ clock - LastFile.opened <= MinutesPerLog
          /\ \A i \in DOMAIN logFiles :
               logFiles'[i].lines = IF i = Len(logFiles)
                                      THEN Append(logFiles[i].lines, LinesLogged + 1)
                                      ELSE logFiles[i].lines]_vars

\* Two lines in a first file, since closed, and a third in a second file,
\* opened more than an hour later.
C33_Witness ==
  /\ Len(logFiles) = 2
  /\ logFiles[1].lines = << 1, 2 >>
  /\ ~logFiles[1].open
  /\ logFiles[2].lines = << 3 >>
  /\ logFiles[2].open
  /\ lpc = "ready"

(***************************************************************************)
(* The number of sentences msg_split returns, checked under SpecFrame.     *)
(***************************************************************************)

\* The number of places of text that hold ch.
CountOf(text, ch) == Cardinality({i \in 1..Len(text) : text[i] = ch})

\* C34: msg_split returns for every non-empty chunk, each turn of its loop
\* taking at least one character off the text left, so that it returns no
\* more sentences than the chunk has characters; for a chunk that begins
\* with "$" it returns exactly as many sentences as the chunk has "$".
C34_OneSentencePerDollar ==
  fpc = "framed" =>
    /\ Len(fout) <= Len(ChunkOf(fin))
    /\ ChunkOf(fin)[1] = "$" => Len(fout) = CountOf(ChunkOf(fin), "$")

\* "$$\n$AA,1*1B", three "$", has been framed into three sentences.
C34_Witness ==
  /\ fpc = "framed"
  /\ ChunkOf(fin) = << "$", "$", "\n", "$", "A", "A", ",", "1", "*", "1", "B" >>
  /\ Len(fout) = 3

(***************************************************************************)
(* clean_nmea_str on every kind of text: SpecTotal validates the fragments *)
(* msg_split emits, sentences cut at every length, with and without their  *)
(* "$", and the sentences of SpecClean.                                    *)
(***************************************************************************)

\* The chunks of SpecFrame.
FrameChunks ==
  UNION { [prefix : FramePrefixes, pieces : [1..n -> FramePieces]] : n \in 1..MaxPieces }

\* What msg_split makes of them.
Fragments ==
  UNION { { MsgSplit(ChunkOf(c))[i] : i \in 1..Len(MsgSplit(ChunkOf(c))) } : c \in FrameChunks }

\* Sentences cut after n characters, and the same without their first one.
Truncations ==
  LET cut == { SliceTo(S, n) : S \in CleanBases \cup InsertedBases, n \in 0..12 }
  IN  cut \cup { SliceFrom(t, 1) : t \in cut }

TotalInputs ==
  Fragments \cup Truncations \cup CleanBases \cup MutatedBases \cup ShortBases

InitTotal ==
  /\ InitPipe
  /\ rpc = "framed"
  /\ rin \in TotalInputs
  /\ rclean = [str |-> << >>, good |-> FALSE]
  /\ rres = NoSend
  /\ FrameIdle
  /\ SerialIdle
  /\ LogIdle

\* "m, isGoodStr = clean_nmea_str(msg)", which returns or raises.
ValidateAny ==
  /\ rpc = "framed"
  /\ IF CleanNmeaStrRaises(rin)
       THEN /\ rpc' = "raised"
            /\ UNCHANGED rclean
       ELSE /\ rclean' = CleanNmeaStr(rin)
            /\ rpc' = "validated"
  /\ UNCHANGED << pipeVars, frameVars, serialVars, logVars, rin, rres >>

NextTotal == ValidateAny

SpecTotal == InitTotal /\ [][NextTotal]_vars

\* C35: clean_nmea_str raises on no text, whatever its length and whether or
\* not it has a "$", a "*" or a comma at offset 6: it returns a text and a
\* truth value, and a text of fewer than nine characters as it is, with
\* False.
C35_CleanNmeaStrTotal ==
  /\ rpc # "raised"
  /\ rpc = "validated" =>
       /\ rclean.good \in BOOLEAN
       /\ rclean.str \in Seq({rclean.str[i] : i \in 1..Len(rclean.str)})
       /\ Len(rin) < 9 => rclean = [str |-> rin, good |-> FALSE]

\* The fragment "$AA,1*1", which msg_split makes of "$AA,1*1B" at the end of
\* a chunk, has been validated and found bad.
C35_Witness ==
  /\ rpc = "validated"
  /\ rin = << "$", "A", "A", ",", "1", "*", "1" >>
  /\ ~rclean.good

(***************************************************************************)
(* What the workers put on the queues: SpecQueues runs the network workers *)
(* and a serial worker, and nobody who takes chunks off the queues.  It    *)
(* starts from the states of InitPipe, or from those with the interrupt    *)
(* taken right after construction: the flag false, periodicCall returned.  *)
(***************************************************************************)

InitQueues ==
  /\ running \in BOOLEAN
  /\ dpc = IF running THEN "tick" ELSE "main"
  /\ \/ num = 1 /\ wpc = [s \in Sources |-> "connect"]
     \/ num = ResetPeriod - 2 /\ wpc = [s \in Sources |-> IF s = 1 THEN "loop" ELSE "connect"]
  /\ udpQueue = << >>
  /\ udpData = [s \in Sources |-> NoData]
  /\ numLoad = [s \in Sources |-> 0]
  /\ nread = [s \in Sources |-> 0]
  /\ nfault = [t \in Sources \cup { 0 } |-> 0]
  /\ restart = FALSE
  /\ trace = << >>
  /\ RelayIdle
  /\ FrameIdle
  /\ serialQueue = << >>
  /\ spc = "loop"
  /\ LogIdle

NextQueues == (\E s \in Sources : Worker(s)) \/ SerialRead \/ SerialExit

SpecQueues == InitQueues /\ [][NextQueues]_vars

\* C36: no empty chunk is ever on a queue: every element of the serial queue
\* and of the network queue has a length above zero, a read that times out
\* or returns nothing putting nothing; so msg_split, which reads the first
\* character of the chunk, raises on no chunk of a queue.
C36_NoEmptyChunkQueued ==
  /\ \A i \in 1..Len(udpQueue) :
       Len(udpQueue[i].text) > 0 /\ ~MsgSplitRaises(udpQueue[i].text)
  /\ \A i \in 1..Len(serialQueue) :
       Len(serialQueue[i].text) > 0 /\ ~MsgSplitRaises(serialQueue[i].text)

\* A worker has been through a put with nothing read, a chunk of another
\* read is on the network queue and a line on the serial queue.
C36_Witness ==
  /\ \E s \in Sources : nfault[s] > 0 /\ wpc[s] = "loop"
  /\ Len(udpQueue) > 0
  /\ Len(serialQueue) > 0

(***************************************************************************)
(* The running flag, checked under Spec.                                   *)
(***************************************************************************)

\* C37: the running flag is true from construction and, once endApplication
\* has set it to false, no step of any thread sets it back to true.
C37_RunningMonotonic ==
  /\ running = TRUE
  /\ [][~running => ~running']_vars

\* endApplication has been called twice, by the "except:" of periodicCall
\* and by that of the main program, and a worker has taken a step since
\* the first call: the flag is false.
C37_Witness ==
  /\ ~running
  /\ dpc = "closed"
  /\ \E s \in Sources : wpc[s] = "exited"

\* C38: whenever periodicCall has stopped, the running flag is false: every
\* way out of its loop, an exception raised while a chunk is processed
\* among them, goes through endApplication, so no worker is left running
\* with the flag true and nobody to take its chunks.
C38_StoppedImpliesNotRunning ==
  DispatchReturned => ~running

\* The log could not be written while a chunk was processed: periodicCall has
\* returned to the main program, a worker is still inside its loop, and the
\* flag is false.
C38_Witness ==
  /\ LogFailed
  /\ dpc = "main"
  /\ \E s \in Sources : wpc[s] \notin { "exited", "dead" }
  /\ ~running

(***************************************************************************)
(* The shared read counter, checked under Spec.                            *)
(***************************************************************************)

\* C39: under every interleaving of the network workers the shared counter
\* self.num stays within 1..100: whenever it is at a multiple of 100 a
\* worker sees it there and resets it to 1 (and reconnects), so that its
\* next change is that reset.
C39_CounterInRange ==
  /\ [](num \in 1..ResetPeriod)
  /\ [][(num % ResetPeriod = 0 /\ num' # num) => num' = 1]_vars

=============================================================================
